---- MODULE Spec2Model ----
(***************************************************************************)
(* Model of the T-Help chat relay: the Flask route send_message with its   *)
(* in-memory session store (app.py), the OpenAI-compatible adapter         *)
(* (openai_integration.py) and the Gemini adapter (gemini_integration.py). *)
(*                                                                         *)
(* Python strings are sequences of tokens, so that concatenation is \o,    *)
(* slicing is SubSeq and "needle in haystack" is membership of a token.    *)
(* Python dicts are records carrying exactly the keys the code sets, so    *)
(* that d.get(k, default) and a KeyError are decided by DOMAIN.  The       *)
(* 'timestamp' entries (wall-clock) and the 'usage' and                    *)
(* 'detected_language' entries, which no caller reads, are left out of     *)
(* the response dicts.                                                     *)
(***************************************************************************)
EXTENDS Integers, Sequences, FiniteSets, TLC

VARIABLES
    openai_client,   \* app.py:23-30  "client" or "None" (constructor raised)
    probe,           \* outcome of the construction-time request of _test_api_connection
    api_available,   \* OpenAIIntegration.api_available
    lastCall,        \* record of the last OpenAI adapter operation: arguments, requests sent, result
    chat_sessions,   \* app.py:33  dict session id -> list of messages
    thr,             \* per request thread: position in send_message and its locals
    served,          \* number of requests received so far
    gLast,           \* record of the last Gemini adapter operation
    fnCall           \* record of the last call of get_file_type, detect_language or get_chat_history

vars == <<openai_client, probe, api_available, lastCall, chat_sessions, thr, served, gLast,
          fnCall>>

appVars == <<chat_sessions, thr, served>>
openaiVars == <<openai_client, probe, api_available, lastCall>>

(***************************************************************************)
(* Bounds of the model                                                     *)
(***************************************************************************)
\* requests received in one behaviour of Spec, of SpecWindow, of SpecConcurrent
MaxRequests == 2
MaxWindowRequests == 4
MaxConcurrentRequests == 2
\* longest conversation_history handed directly to an adapter operation
MaxHistory == 7
\* latest status check at which the provider's answer changes
MaxPollAt == 21

(***************************************************************************)
(* Python values                                                           *)
(***************************************************************************)
None == <<"<None>">>

Truthy(s) == s # <<>> /\ s # None

Contains(s, tok) == \E i \in 1..Len(s) : s[i] = tok

Min(a, b) == IF a < b THEN a ELSE b

\* s[-n:]
LastN(s, n) == IF Len(s) <= n THEN s ELSE SubSeq(s, Len(s) - n + 1, Len(s))

\* s[:n]
FirstN(s, n) == SubSeq(s, 1, Min(Len(s), n))

(***************************************************************************)
(* OpenAI-compatible adapter (openai_integration.py)                       *)
(***************************************************************************)
models ==
    [primary        |-> "openai/gpt-oss-120b:free",
     fallback       |-> "mistralai/mistral-7b-instruct:free",
     cost_efficient |-> "openai/gpt-oss-120b:free",
     fast           |-> "mistralai/mistral-7b-instruct:free",
     vision         |-> "google/gemini-pro-vision",
     audio          |-> "openai/whisper-1"]

NoModel == "None"

system_prompt == <<"You are T-Help, an expert Telkom technical support assistant.">>

\* Outcomes of one request to the provider: a completion with its message
\* content, or an exception with its text.
Completion(c) == [kind |-> "ok", content |-> c]
Raises(e) == [kind |-> "raise", err |-> e]

ErrQuota == <<"Error code: 400 - ", "insufficient_quota">>
Err429 == <<"Error code: ", "429", " - Too Many Requests">>
ErrRateLimit == <<"rate_limit", " reached, retry later">>
ErrServer == <<"Error code: 500 - internal error">>

IsQuotaError(error_str) == Contains(error_str, "insufficient_quota") \/ Contains(error_str, "429")

\* _test_api_connection: True iff the 1-token request did not raise
TestApiConnection(p) == p.kind = "ok"

QUOTA_TEXT ==
    <<"I'm currently experiencing API limitations with my AI service.",
      "For immediate assistance: restart your router, check other devices, move closer to router, SMTP settings",
      "For complex issues, please call Telkom support at 10210 or visit a Telkom store.">>

OPENAI_APOLOGY ==
    <<"I'm sorry, I'm having trouble processing your request right now. Please try again in a moment, or contact Telkom support directly for immediate assistance.">>

CreateQuotaExceededResponse ==
    [success |-> FALSE, response |-> QUOTA_TEXT, model_used |-> "fallback_mode",
     error_type |-> "quota_exceeded"]

CreateErrorResponse(error) ==
    [success |-> FALSE, error |-> error, response |-> OPENAI_APOLOGY]

ErrUnavailable == <<"OpenAI API quota exceeded or unavailable">>

ModelsToTry(model) ==
    IF model = models.primary
    THEN <<models.primary, models.cost_efficient, models.fallback>>
    ELSE <<models.cost_efficient, models.fallback>>
\* a loop that gives up at the first failure of a candidate
TryModelsNoFallback(models_to_try, i, outs) ==
    LET o == outs[i]
        attempts == SubSeq(models_to_try, 1, i)
    IN  IF o.kind = "ok"
        THEN [raised |-> FALSE, content |-> o.content, attempts |-> attempts, available |-> TRUE]
        ELSE [raised |-> TRUE, err |-> o.err, attempts |-> attempts,
              available |-> ~IsQuotaError(o.err)]
\* a loop that marks the provider unavailable whenever the last candidate fails
RECURSIVE TryModelsTrippingOnAnyError(_, _, _)
TryModelsTrippingOnAnyError(models_to_try, i, outs) ==
    LET model == models_to_try[i]
        o == outs[i]
        attempts == SubSeq(models_to_try, 1, i)
    IN  IF o.kind = "ok"
        THEN [raised |-> FALSE, content |-> o.content, attempts |-> attempts, available |-> TRUE]
        ELSE IF IsQuotaError(o.err) \/ model = models_to_try[Len(models_to_try)]
        THEN [raised |-> TRUE, err |-> o.err, attempts |-> attempts, available |-> FALSE]
        ELSE TryModelsTrippingOnAnyError(models_to_try, i + 1, outs)

\* The for loop of _make_api_call from candidate i on; outs[i] is what the
\* provider does with the i-th request of this call.
RECURSIVE TryModels(_, _, _)
TryModels(models_to_try, i, outs) ==
    LET model == models_to_try[i]
        o == outs[i]
        attempts == SubSeq(models_to_try, 1, i)
    IN  IF o.kind = "ok"
        THEN [raised |-> FALSE, content |-> o.content, attempts |-> attempts, available |-> TRUE]
        ELSE IF IsQuotaError(o.err)
        THEN [raised |-> TRUE, err |-> o.err, attempts |-> attempts, available |-> FALSE]
        ELSE IF model = models_to_try[Len(models_to_try)]
        THEN [raised |-> TRUE, err |-> o.err, attempts |-> attempts, available |-> TRUE]
        ELSE TryModels(models_to_try, i + 1, outs)

\* _make_api_call(model=..., messages=...): what it returns or raises, the
\* models it sent a request to, and api_available afterwards.
MakeApiCall(available, model, outs) ==
    IF ~available
    THEN [raised |-> TRUE, err |-> ErrUnavailable, attempts |-> <<>>, available |-> available]
    ELSE TryModels(ModelsToTry(model), 1, outs)

ChatRequests(attempts, messages) ==
    [i \in 1..Len(attempts) |-> [api |-> "chat.completions", model |-> attempts[i], messages |-> messages]]

\* process_text_message past its availability check (lines 141-178)
TextMessageBody(available, message, conversation_history, model, outs) ==
    LET model_name == IF model = NoModel THEN models.cost_efficient ELSE model
        messages == <<[role |-> "system", content |-> system_prompt]>>
                    \o LastN(conversation_history, 6)
                    \o <<[role |-> "user", content |-> message]>>
        r == MakeApiCall(available, model_name, outs)
        requests == ChatRequests(r.attempts, messages)
    IN  IF ~r.raised
        THEN [resp |-> [success |-> TRUE, response |-> r.content, model_used |-> model_name],
              available |-> r.available, requests |-> requests, messages |-> messages]
        ELSE IF IsQuotaError(r.err)
        THEN [resp |-> CreateQuotaExceededResponse,
              available |-> FALSE, requests |-> requests, messages |-> messages]
        ELSE [resp |-> CreateErrorResponse(r.err),
              available |-> r.available, requests |-> requests, messages |-> messages]

\* a process_text_message without the check of lines 138-139
ProcessTextMessageUnguarded(available, message, conversation_history, model, outs) ==
    TextMessageBody(available, message, conversation_history, model, outs)

\* a process_text_message that takes the provider to be available again
ProcessTextMessageReprobing(available, message, conversation_history, model, outs) ==
    TextMessageBody(TRUE, message, conversation_history, model, outs)

\* process_text_message(message, conversation_history, model): the response
\* dict, api_available afterwards, the requests sent and the messages built.
ProcessTextMessage(available, message, conversation_history, model, outs) ==
    IF ~available
    THEN [resp |-> CreateQuotaExceededResponse, available |-> available,
          requests |-> <<>>, messages |-> <<>>]
    ELSE TextMessageBody(available, message, conversation_history, model, outs)

DEFAULT_IMAGE_PROMPT ==
    <<"Analyze this image for technical issues or information that might help with Telkom technical support.">>

\* process_image_message(image_path, text_message); image.readable is whether
\* _encode_image_to_base64 can open the file.
ProcessImageMessage(available, image, text_message, model, outs) ==
    LET model_name == IF model = NoModel THEN models.vision ELSE model
        content == <<[type |-> "text",
                      text |-> IF Truthy(text_message) THEN text_message ELSE DEFAULT_IMAGE_PROMPT],
                     [type |-> "image_url", image_url |-> image.name]>>
        messages == <<[role |-> "system", content |-> system_prompt],
                      [role |-> "user", content |-> content]>>
        r == MakeApiCall(available, model_name, outs)
        requests == ChatRequests(r.attempts, messages)
    IN  IF ~image.readable
        THEN [resp |-> CreateErrorResponse(<<"[Errno 2] No such file or directory">>),
              available |-> available, requests |-> <<>>, messages |-> <<>>]
        ELSE IF ~r.raised
        THEN [resp |-> [success |-> TRUE, response |-> r.content, model_used |-> model_name,
                        message_type |-> "image_analysis"],
              available |-> r.available, requests |-> requests, messages |-> messages]
        ELSE [resp |-> CreateErrorResponse(r.err),
              available |-> r.available, requests |-> requests, messages |-> messages]

KeyErrorModelUsed == <<"'model_used'">>

\* process_audio_message(audio_path); transcribed is the outcome of the
\* audio.transcriptions request, outs those of the inner text call.
ProcessAudioMessage(available, audio, transcribed, outs) ==
    LET t == ProcessTextMessage(available, transcribed.content, <<>>, NoModel, outs)
        trRequest == <<[api |-> "audio.transcriptions", model |-> models.audio, messages |-> <<>>]>>
    IN  IF ~audio.readable
        THEN [resp |-> CreateErrorResponse(<<"[Errno 2] No such file or directory">>),
              available |-> available, requests |-> <<>>, messages |-> <<>>]
        ELSE IF transcribed.kind = "raise"
        THEN [resp |-> CreateErrorResponse(transcribed.err),
              available |-> available, requests |-> trRequest, messages |-> <<>>]
        ELSE IF "model_used" \notin DOMAIN t.resp
        THEN [resp |-> CreateErrorResponse(KeyErrorModelUsed),
              available |-> t.available, requests |-> trRequest \o t.requests,
              messages |-> t.messages]
        ELSE [resp |-> [success |-> TRUE, transcription |-> transcribed.content,
                        response |-> t.resp.response,
                        model_used |-> models.audio \o " + " \o t.resp.model_used,
                        message_type |-> "voice_message"],
              available |-> t.available, requests |-> trRequest \o t.requests,
              messages |-> t.messages]

PDF_PLACEHOLDER == <<"Could not extract text from PDF.">>

RECURSIVE ConcatPages(_)
ConcatPages(pages) ==
    IF pages = <<>> THEN <<>> ELSE pages[1] \o ConcatPages(Tail(pages))

\* _extract_pdf_text: text += page.extract_text() raises TypeError on a page
\* whose extract_text() is None; every exception yields the placeholder.
ExtractPdfText(pdf) ==
    IF ~pdf.readable \/ \E i \in 1..Len(pdf.pages) : pdf.pages[i] = None
    THEN PDF_PLACEHOLDER
    ELSE ConcatPages(pdf.pages)

OPENAI_PDF_LIMIT == 2000

\* a combined_message holding the whole extracted text
OpenAIPdfPromptUntruncated(text_message, pdf_text) ==
    <<"User message: ">> \o text_message
    \o <<"PDF Content Summary:">> \o pdf_text
    \o <<"  # Limit to first 2000 characters",
         "Please analyze this document and help with any Telkom technical issues mentioned.">>

OpenAIPdfPrompt(text_message, pdf_text) ==
    <<"User message: ">> \o text_message
    \o <<"PDF Content Summary:">> \o FirstN(pdf_text, OPENAI_PDF_LIMIT)
    \o <<"  # Limit to first 2000 characters",
         "Please analyze this document and help with any Telkom technical issues mentioned.">>

\* process_pdf_document(pdf_path, text_message); passed is the message
\* handed to process_text_message
ProcessPdfDocument(available, pdf, text_message, outs) ==
    LET pdf_text == ExtractPdfText(pdf)
        combined_message == OpenAIPdfPrompt(text_message, pdf_text)
        t == ProcessTextMessage(available, combined_message, <<>>, models.primary, outs)
        made == [available |-> t.available, requests |-> t.requests, messages |-> t.messages,
                 passed |-> combined_message]
    IN  IF "model_used" \notin DOMAIN t.resp
        THEN [resp |-> CreateErrorResponse(KeyErrorModelUsed)] @@ made
        ELSE [resp |-> [success |-> TRUE, response |-> t.resp.response,
                        model_used |-> t.resp.model_used, message_type |-> "pdf_analysis",
                        pdf_text_length |-> Len(pdf_text)]] @@ made

(***************************************************************************)
(* Gemini adapter (gemini_integration.py)                                  *)
(***************************************************************************)
supported_audio_formats ==
    (".wav" :> "audio/wav") @@ (".mp3" :> "audio/mp3") @@ (".ogg" :> "audio/ogg")
    @@ (".webm" :> "audio/webm")

GEMINI_APOLOGY ==
    <<"I'm sorry, I'm having trouble processing your request right now. Please try again or contact Telkom support directly.">>

GeminiErrorResponse(error) ==
    [success |-> FALSE, error |-> error, response |-> GEMINI_APOLOGY]

GeminiSuccess(text) ==
    [success |-> TRUE, response |-> text, model_used |-> "gemini-2.0-flash"]

\* msg.get('text_content', msg.get('content', ''))
GeminiContent(msg) ==
    IF "text_content" \in DOMAIN msg THEN msg.text_content
    ELSE IF "content" \in DOMAIN msg THEN msg.content ELSE <<>>

\* _format_history
FormatHistory(history) ==
    [i \in 1..Len(history) |->
        [role |-> IF history[i].type = "user" THEN "user" ELSE "model",
         parts |-> <<GeminiContent(history[i])>>]]

MAX_AUDIO_SIZE == 20 * 1024 * 1024

\* audio_path.lower() for the extensions of the model
Lower(ext) ==
    CASE ext = ".WAV" -> ".wav"
      [] ext = ".MP3" -> ".mp3"
      [] ext = ".EXE" -> ".exe"
      [] OTHER -> ext

\* a _validate_audio_file without the test of lines 79-80
ValidateAudioFileNoEmptyCheck(audio) ==
    IF ~audio.exists THEN [valid |-> FALSE, error |-> <<"Audio file not found: ">>]
    ELSE IF audio.size > MAX_AUDIO_SIZE
    THEN [valid |-> FALSE, error |-> <<"Audio file too large: ", " (max 20MB)">>]
    ELSE IF Lower(audio.ext) \notin DOMAIN supported_audio_formats
    THEN [valid |-> FALSE, error |-> <<"Unsupported audio format: ", Lower(audio.ext)>>]
    ELSE [valid |-> TRUE, mime_type |-> supported_audio_formats[Lower(audio.ext)], size |-> audio.size,
          extension |-> Lower(audio.ext)]

\* _validate_audio_file(audio_path); audio is the file at that path:
\* whether it exists, its size in bytes and the extension of the path.
ValidateAudioFile(audio) ==
    IF ~audio.exists THEN [valid |-> FALSE, error |-> <<"Audio file not found: ">>]
    ELSE IF audio.size > MAX_AUDIO_SIZE
    THEN [valid |-> FALSE, error |-> <<"Audio file too large: ", " (max 20MB)">>]
    ELSE IF audio.size = 0
    THEN [valid |-> FALSE, error |-> <<"Audio file is empty">>]
    ELSE IF Lower(audio.ext) \notin DOMAIN supported_audio_formats
    THEN [valid |-> FALSE, error |-> <<"Unsupported audio format: ", Lower(audio.ext)>>]
    ELSE [valid |-> TRUE, mime_type |-> supported_audio_formats[Lower(audio.ext)], size |-> audio.size,
          extension |-> Lower(audio.ext)]

max_wait == 60
check_interval == 3

\* The status the provider reports at the n-th genai.get_file of a call:
\* PROCESSING before check poll.at, poll.then from then on ("raise": the
\* status request raises).
StatusAt(poll, n) == IF n < poll.at THEN "PROCESSING" ELSE poll.then
\* a loop that still checks once the time waited has reached max_wait
RECURSIVE PollLoopInclusive(_, _, _, _)
PollLoopInclusive(state, waited, checks, poll) ==
    IF state = "PROCESSING" /\ waited <= max_wait
    THEN LET s == StatusAt(poll, checks + 1)
         IN  IF s = "raise"
             THEN [state |-> state, waited |-> waited + check_interval, checks |-> checks + 1]
             ELSE PollLoopInclusive(s, waited + check_interval, checks + 1, poll)
    ELSE [state |-> state, waited |-> waited, checks |-> checks]

\* The while loop of process_audio_message (lines 135-143): the state name
\* and the time waited when the loop is left, and the status checks made.
RECURSIVE PollLoop(_, _, _, _)
PollLoop(state, waited, checks, poll) ==
    IF state = "PROCESSING" /\ waited < max_wait
    THEN LET s == StatusAt(poll, checks + 1)
         IN  IF s = "raise"
             THEN [state |-> state, waited |-> waited + check_interval, checks |-> checks + 1]
             ELSE PollLoop(s, waited + check_interval, checks + 1, poll)
    ELSE [state |-> state, waited |-> waited, checks |-> checks]
\* a clean-up whose failure reaches the outer except clause
DeleteUploadedFileFatal(result, deleted) ==
    IF deleted.kind = "raise"
    THEN [result EXCEPT !.resp = GeminiErrorResponse(deleted.err)]
    ELSE result

\* genai.delete_file in its own try/except (lines 173-177): an exception is
\* logged and dropped, the call goes on to its return statement
DeleteUploadedFile(result, deleted) == result

DEFAULT_AUDIO_PROMPT ==
    <<"Please transcribe and analyze this audio message. If you hear any Telkom technical support issues or questions, provide helpful troubleshooting assistance.">>

\* process_audio_message(audio_path, text_message, conversation_history):
\* uploaded is the outcome of genai.upload_file (its content the state name
\* of the uploaded file), poll the provider's answers to the status checks,
\* sent the outcome of chat_session.send_message, deleted that of
\* genai.delete_file.
GeminiProcessAudioMessage(audio, text_message, conversation_history, uploaded, poll, sent, deleted) ==
    LET validation == ValidateAudioFile(audio)
        nothing == [uploads |-> 0, checks |-> 0, waited |-> 0, sends |-> 0, deletes |-> 0,
                    history |-> <<>>, prompt |-> <<>>]
        loop == PollLoop(uploaded.content, 0, 0, poll)
        polled == [nothing EXCEPT !.uploads = 1, !.checks = loop.checks, !.waited = loop.waited]
        user_prompt == IF Truthy(text_message) THEN text_message ELSE DEFAULT_AUDIO_PROMPT
        asked == [polled EXCEPT !.sends = 1, !.history = FormatHistory(conversation_history),
                                !.prompt = user_prompt]
    IN  IF ~validation.valid
        THEN [resp |-> GeminiErrorResponse(validation.error)] @@ nothing
        ELSE IF uploaded.kind = "raise"
        THEN [resp |-> GeminiErrorResponse(<<"Failed to upload audio file: ">> \o uploaded.err)]
             @@ nothing
        ELSE IF loop.state = "PROCESSING"
        THEN [resp |-> GeminiErrorResponse(<<"Audio processing timeout after 60s">>)] @@ polled
        ELSE IF loop.state = "FAILED"
        THEN [resp |-> GeminiErrorResponse(<<"Audio file processing failed - file may be corrupted or in unsupported format">>)]
             @@ polled
        ELSE IF loop.state # "ACTIVE"
        THEN [resp |-> GeminiErrorResponse(<<"Audio file not ready: ", loop.state>>)] @@ polled
        ELSE IF sent.kind = "raise"
        THEN [resp |-> GeminiErrorResponse(sent.err)] @@ asked
        ELSE DeleteUploadedFile(
                 [resp |-> [success |-> TRUE, response |-> sent.content,
                            model_used |-> "gemini-2.0-flash",
                            audio_info |-> [size |-> validation.size,
                                            type |-> validation.mime_type,
                                            processing_time |-> loop.waited]]]
                 @@ [asked EXCEPT !.deletes = 1],
                 deleted)

\* process_text_message(message, conversation_history)
GeminiProcessTextMessage(message, conversation_history, sent) ==
    [resp |-> IF sent.kind = "raise" THEN GeminiErrorResponse(sent.err)
              ELSE GeminiSuccess(sent.content),
     uploads |-> 0, checks |-> 0, waited |-> 0, sends |-> 1, deletes |-> 0,
     history |-> FormatHistory(conversation_history), prompt |-> message]

DEFAULT_GEMINI_IMAGE_PROMPT ==
    <<"Please analyze this image for any Telkom technical support issues or error messages.">>

\* process_image_message(image_path, text_message, conversation_history);
\* image.readable is whether the file exists and Image.open succeeds.
GeminiProcessImageMessage(image, text_message, conversation_history, sent) ==
    IF ~image.readable
    THEN [resp |-> GeminiErrorResponse(<<"Image file not found: ">>),
          uploads |-> 0, checks |-> 0, waited |-> 0, sends |-> 0, deletes |-> 0,
          history |-> <<>>, prompt |-> <<>>]
    ELSE [resp |-> IF sent.kind = "raise" THEN GeminiErrorResponse(sent.err)
                   ELSE GeminiSuccess(sent.content),
          uploads |-> 0, checks |-> 0, waited |-> 0, sends |-> 1, deletes |-> 0,
          history |-> FormatHistory(conversation_history),
          prompt |-> IF Truthy(text_message) THEN text_message
                     ELSE DEFAULT_GEMINI_IMAGE_PROMPT]

\* text += page.extract_text() or ''
RECURSIVE GeminiConcatPages(_)
GeminiConcatPages(pages) ==
    IF pages = <<>> THEN <<>>
    ELSE (IF Truthy(pages[1]) THEN pages[1] ELSE <<>>) \o GeminiConcatPages(Tail(pages))

\* _extract_pdf_text; pdf.parses is whether PyPDF2 reads the file
GeminiExtractPdfText(pdf) ==
    IF ~pdf.parses THEN PDF_PLACEHOLDER ELSE GeminiConcatPages(pdf.pages)

GEMINI_PDF_LIMIT == 8000

GeminiPdfPrompt(text_message, pdf_text) ==
    <<"User message: ">> \o text_message
    \o <<"PDF Content:">> \o FirstN(pdf_text, GEMINI_PDF_LIMIT)
    \o <<"Please analyze the document content and help with any Telkom technical issues mentioned.">>

\* process_pdf_document(pdf_path, text_message, conversation_history)
GeminiProcessPdfDocument(pdf, text_message, conversation_history, sent) ==
    IF ~pdf.exists
    THEN [resp |-> GeminiErrorResponse(<<"PDF file not found: ">>),
          uploads |-> 0, checks |-> 0, waited |-> 0, sends |-> 0, deletes |-> 0,
          history |-> <<>>, prompt |-> <<>>]
    ELSE GeminiProcessTextMessage(
            GeminiPdfPrompt(text_message, GeminiExtractPdfText(pdf)),
            conversation_history, sent)

(***************************************************************************)
(* Language detection (openai_integration.py).  Here a text is the         *)
(* sequence of its characters, so that "pattern in text" is the substring  *)
(* test of Python.                                                         *)
(***************************************************************************)
\* language_patterns, in the order of the dict
language_patterns ==
    [afrikaans |->
        <<<<"e", "k">>,
          <<"j", "y">>,
          <<"d", "i", "s">>,
          <<"n", "i", "e">>,
          <<"w", "a", "t">>,
          <<"h", "o", "e">>,
          <<"w", "a", "a", "r">>,
          <<"w", "a", "n", "n", "e", "e", "r">>,
          <<"h", "o", "e", "k", "o", "m">>,
          <<"a", "s", "s", "e", "b", "l", "i", "e", "f">>,
          <<"d", "a", "n", "k", "i", "e">>>>,
     zulu |->
        <<<<"n", "g", "i">>,
          <<"u", "k", "u">>,
          <<"n", "g", "i", "-">>,
          <<"i", "s", "i">>,
          <<"a", "b", "a">>,
          <<"a", "m", "a">>,
          <<"s", "a", "w", "u", "b", "o", "n", "a">>,
          <<"n", "g", "i", "y", "a", "b", "o", "n", "g", "a">>,
          <<"u", "n", "j", "a", "n", "i">>,
          <<"k", "u", "n", "j", "a", "n", "i">>>>,
     english |->
        <<<<"t", "h", "e">>,
          <<"a", "n", "d">>,
          <<"y", "o", "u">>,
          <<"h", "o", "w">>,
          <<"w", "h", "a", "t">>,
          <<"w", "h", "e", "r", "e">>,
          <<"w", "h", "e", "n">>,
          <<"w", "h", "y">>,
          <<"p", "l", "e", "a", "s", "e">>,
          <<"t", "h", "a", "n", "k">>>>]

\* str.lower() on one character
LowerChar(c) ==
    CASE c = "A" -> "a"
      [] c = "B" -> "b"
      [] c = "C" -> "c"
      [] c = "D" -> "d"
      [] c = "E" -> "e"
      [] c = "F" -> "f"
      [] c = "G" -> "g"
      [] c = "H" -> "h"
      [] c = "I" -> "i"
      [] c = "J" -> "j"
      [] c = "K" -> "k"
      [] c = "L" -> "l"
      [] c = "M" -> "m"
      [] c = "N" -> "n"
      [] c = "O" -> "o"
      [] c = "P" -> "p"
      [] c = "Q" -> "q"
      [] c = "R" -> "r"
      [] c = "S" -> "s"
      [] c = "T" -> "t"
      [] c = "U" -> "u"
      [] c = "V" -> "v"
      [] c = "W" -> "w"
      [] c = "X" -> "x"
      [] c = "Y" -> "y"
      [] c = "Z" -> "z"
      [] OTHER -> c

LowerText(text) == [i \in 1..Len(text) |-> LowerChar(text[i])]

\* pattern in text_lower
IsSubstring(pattern, text) ==
    \E i \in 0..(Len(text) - Len(pattern)) : SubSeq(text, i + 1, i + Len(pattern)) = pattern

\* line 120: the number of patterns of the language found in the text
LanguageScore(lang, text) ==
    LET patterns == language_patterns[lang]
    IN  Cardinality({k \in 1..Len(patterns) : IsSubstring(patterns[k], LowerText(text))})

\* a detect_language that returns the first language with a pattern found
detect_language_first_found(text) ==
    IF text = <<>> THEN "english"
    ELSE IF LanguageScore("afrikaans", text) > 0 THEN "afrikaans"
    ELSE IF LanguageScore("zulu", text) > 0 THEN "zulu"
    ELSE "english"

\* detect_language(text); max() returns the first key of the dict with the
\* highest score
detect_language(text) ==
    IF text = <<>> THEN "english"
    ELSE LET a == LanguageScore("afrikaans", text)
             z == LanguageScore("zulu", text)
             e == LanguageScore("english", text)
             detected_lang == IF a >= z /\ a >= e THEN "afrikaans"
                              ELSE IF z >= e THEN "zulu"
                              ELSE "english"
         IN  IF LanguageScore(detected_lang, text) > 0 THEN detected_lang ELSE "english"

(***************************************************************************)
(* The route layer and the session store (app.py)                          *)
(***************************************************************************)
ALLOWED_EXTENSIONS ==
    {"txt", "pdf", "png", "jpg", "jpeg", "gif", "mp4", "avi", "mov", "wav", "mp3", "ogg", "webm"}

\* str.lower() on the extensions of the model
LowerExt(ext) ==
    CASE ext \in {"PNG", "Png"} -> "png"
      [] ext = "PDF" -> "pdf"
      [] ext = "WEBM" -> "webm"
      [] ext = "EXE" -> "exe"
      [] ext \in {"JPG", "Jpg"} -> "jpg"
      [] ext = "JPEG" -> "jpeg"
      [] ext = "GIF" -> "gif"
      [] ext = "MP4" -> "mp4"
      [] ext = "AVI" -> "avi"
      [] ext = "MOV" -> "mov"
      [] ext = "WAV" -> "wav"
      [] ext = "MP3" -> "mp3"
      [] ext = "OGG" -> "ogg"
      [] ext = "TXT" -> "txt"
      [] ext = "DOCX" -> "docx"
      [] OTHER -> ext

\* A filename is the sequence of its dot-separated parts: <<"a", "tar", "gz">>
\* is "a.tar.gz", <<"", "png">> is ".png", <<"README">> has no dot.
RECURSIVE JoinDots(_)
JoinDots(parts) ==
    IF Len(parts) = 0 THEN ""
    ELSE IF Len(parts) = 1 THEN parts[1]
    ELSE parts[1] \o "." \o JoinDots(Tail(parts))

\* allowed_file(filename)
allowed_file(filename) ==
    Len(filename) > 1 /\ LowerExt(filename[Len(filename)]) \in ALLOWED_EXTENSIONS
\* a get_file_type that compares the extension as it is written
get_file_type_as_written(filename) ==
    LET ext == IF Len(filename) > 1 THEN filename[Len(filename)] ELSE ""
    IN  IF ext \in {"jpg", "jpeg", "png", "gif"} THEN "image"
        ELSE IF ext \in {"mp4", "avi", "mov"} THEN "video"
        ELSE IF ext \in {"wav", "mp3", "ogg", "webm"} THEN "audio"
        ELSE IF ext = "pdf" THEN "pdf"
        ELSE "document"

\* get_file_type(filename)
get_file_type(filename) ==
    LET ext == IF Len(filename) > 1 THEN LowerExt(filename[Len(filename)]) ELSE ""
    IN  IF ext \in {"jpg", "jpeg", "png", "gif"} THEN "image"
        ELSE IF ext \in {"mp4", "avi", "mov"} THEN "video"
        ELSE IF ext \in {"wav", "mp3", "ogg", "webm"} THEN "audio"
        ELSE IF ext = "pdf" THEN "pdf"
        ELSE "document"

\* werkzeug's secure_filename on names of ASCII letters and dots: leading
\* and trailing dots are stripped.
RECURSIVE secure_filename(_)
secure_filename(filename) ==
    IF filename = <<>> THEN <<>>
    ELSE IF filename[1] = "" THEN secure_filename(Tail(filename))
    ELSE IF filename[Len(filename)] = ""
    THEN secure_filename(SubSeq(filename, 1, Len(filename) - 1))
    ELSE filename

\* str.strip() on a text whose tokens are words or runs of blanks
RECURSIVE Strip(_)
Strip(s) ==
    IF s = <<>> THEN <<>>
    ELSE IF s[1] = " " THEN Strip(Tail(s))
    ELSE IF s[Len(s)] = " " THEN Strip(SubSeq(s, 1, Len(s) - 1))
    ELSE s

FALLBACK_GREETING == <<"Hello! I'm T-Help, your Telkom technical assistant. I'm currently running in demo mode.">>
FALLBACK_INTERNET == <<"I understand you're having internet connectivity issues. Let me help you troubleshoot this step by step">>
FALLBACK_DEFAULT == <<"I'm here to help with your Telkom technical issues. Currently running in demo mode">>
FALLBACK_VOICE == <<"I've received your voice message. In full mode, I would transcribe and analyze your audio. Currently running in demo mode.">>

\* simulate_ai_response_fallback(message, message_type); a keyword is found
\* when it is a token of the message
simulate_ai_response_fallback(message, message_type) ==
    IF message_type = "voice" THEN FALLBACK_VOICE
    ELSE IF message_type \in {"image", "video", "pdf", "document"}
    THEN <<"I've received your ", message_type,
           ". In full mode, I would analyze this content for you. Currently running in demo mode.">>
    ELSE IF \E w \in {"internet", "connection", "wifi", "slow", "not working"} : Contains(message, w)
    THEN FALLBACK_INTERNET
    ELSE IF \E w \in {"hello", "hi", "help", "start"} : Contains(message, w)
    THEN FALLBACK_GREETING
    ELSE FALLBACK_DEFAULT

\* msg.get('text_content', msg['content'])
TextOrContent(msg) ==
    IF "text_content" \in DOMAIN msg THEN msg.text_content ELSE msg.content

\* a history taken from the oldest six messages
ContextHistoryOldest(session) ==
    LET window == FirstN(session, 6)
    IN  [i \in 1..Len(window) |->
            IF window[i].type = "user"
            THEN [role |-> "user", content |-> TextOrContent(window[i])]
            ELSE [role |-> "assistant", content |-> window[i].content]]

\* a history built from the display content of every message
ContextHistoryDisplay(session) ==
    LET window == LastN(session, 6)
    IN  [i \in 1..Len(window) |->
            IF window[i].type = "user"
            THEN [role |-> "user", content |-> window[i].content]
            ELSE [role |-> "assistant", content |-> window[i].content]]

\* generate_ai_response, lines 63-76: the last six messages in provider
\* format (every stored message has type 'user' or 'ai')
ContextHistory(session) ==
    LET window == LastN(session, 6)
    IN  [i \in 1..Len(window) |->
            IF window[i].type = "user"
            THEN [role |-> "user", content |-> TextOrContent(window[i])]
            ELSE [role |-> "assistant", content |-> window[i].content]]

\* The markers of the display strings; the glyphs U+1F3B5 and U+1F4CE are
\* written [note] and [clip].
VOICE_MARKER == <<"[note] Voice message">>
CLIP == "[clip] "

\* send_message, lines 149-257: the branch a request takes and, when it is
\* accepted, the user message (its id is set when it is appended) and the
\* arguments of generate_ai_response.  A request r carries the form field
\* message and, for each of the file fields voice_data and file, whether
\* it is present and the filename of the uploaded file ("": none chosen).
Plan(r) ==
    LET text_message == Strip(r.message)
        filename == secure_filename(r.file.filename)
        file_type == get_file_type(filename)
    IN  IF r.voice_data.present
        THEN IF r.voice_data.filename # <<>>
             THEN [kind |-> "voice",
                   user |-> [type |-> "user", content |-> VOICE_MARKER, message_type |-> "voice",
                             file_path |-> <<"uploads/voice_", "uuid", ".webm">>],
                   message_content |-> <<"Voice message received">>,
                   message_type |-> "audio", has_file |-> TRUE]
             ELSE [kind |-> "none"]
        ELSE IF r.file.present
        THEN IF r.file.filename # <<>> /\ allowed_file(r.file.filename)
             THEN [kind |-> "file",
                   user |-> [type |-> "user",
                             content |-> IF text_message # <<>>
                                         THEN text_message \o <<"\n", CLIP, JoinDots(filename)>>
                                         ELSE <<CLIP, JoinDots(filename)>>,
                             message_type |-> file_type,
                             file_path |-> <<"uploads/", "uuid", "_", JoinDots(filename)>>,
                             text_content |-> IF text_message # <<>> THEN text_message ELSE None],
                   message_content |-> IF text_message # <<>> THEN text_message
                                       ELSE <<"Analyze this ", file_type, ": ", JoinDots(filename)>>,
                   message_type |-> file_type, has_file |-> TRUE]
             ELSE [kind |-> "none"]
        ELSE IF text_message # <<>>
        THEN [kind |-> "text",
              user |-> [type |-> "user", content |-> text_message, message_type |-> "text"],
              message_content |-> text_message, message_type |-> "text", has_file |-> FALSE]
        ELSE [kind |-> "error"]

Accepted(plan) == plan.kind \in {"voice", "file", "text"}

NoCall ==
    [op |-> "none", available_before |-> FALSE, model |-> NoModel, resp |-> [success |-> FALSE],
     available |-> FALSE, requests |-> <<>>, messages |-> <<>>]

\* generate_ai_response, lines 78-96: the adapter operation for the turn.
\* o holds what the outside world answers during the call: o.outs the
\* chat completion requests, o.transcribed the transcription request,
\* o.pdf the uploaded PDF as PyPDF2 reads it.
AdapterCall(available, message_content, message_type, has_file, conversation_history, o) ==
    IF message_type = "image" /\ has_file
    THEN [op |-> "image", available_before |-> available, model |-> NoModel]
         @@ ProcessImageMessage(available, [readable |-> TRUE, name |-> "upload"],
                                message_content, NoModel, o.outs)
    ELSE IF message_type = "audio" /\ has_file
    THEN [op |-> "audio", available_before |-> available, model |-> NoModel]
         @@ ProcessAudioMessage(available, [readable |-> TRUE], o.transcribed, o.outs)
    ELSE IF message_type = "pdf" /\ has_file
    THEN [op |-> "pdf", available_before |-> available, model |-> NoModel]
         @@ ProcessPdfDocument(available, o.pdf, message_content, o.outs)
    ELSE [op |-> "text", available_before |-> available, model |-> NoModel]
         @@ ProcessTextMessage(available, message_content, conversation_history, NoModel, o.outs)

\* generate_ai_response, lines 98-101
ReplyText(response) ==
    IF response.success THEN response.response
    ELSE <<"I apologize, I'm experiencing technical difficulties: ">>
         \o (IF "error" \in DOMAIN response THEN response.error ELSE <<"Unknown error">>)
         \o <<". Please try again or contact Telkom support directly.">>

Idle == [pc |-> "idle", req |-> <<>>, plan |-> [kind |-> "idle"], id |-> 0,
         user_message |-> <<>>, ai_response_text |-> <<>>, result |-> [status |-> "idle"]]

SessionOf(t) == thr[t].req.session_id

\* lines 143-145: a request arrives; session_id not in chat_sessions is read
Receive(t, r, max) ==
    /\ thr[t].pc = "idle"
    /\ served < max
    /\ thr' = [thr EXCEPT ![t] =
                 [Idle EXCEPT !.req = r,
                              !.pc = IF r.session_id \in DOMAIN chat_sessions
                                     THEN "dispatch" ELSE "create_session"]]
    /\ served' = served + 1
    /\ UNCHANGED <<chat_sessions, openaiVars, gLast, fnCall>>

\* line 146: chat_sessions[session_id] = []
CreateSession(t) ==
    /\ thr[t].pc = "create_session"
    /\ chat_sessions' = (SessionOf(t) :> <<>>) @@ chat_sessions
    /\ thr' = [thr EXCEPT ![t].pc = "dispatch"]
    /\ UNCHANGED <<served, openaiVars, gLast, fnCall>>

\* lines 283-284, and the branches that fall off the end of the view: the
\* request is answered without a turn
Reject(t) ==
    /\ thr[t].pc = "dispatch"
    /\ ~Accepted(Plan(thr[t].req))
    /\ thr' = [thr EXCEPT ![t].pc = "idle",
                          ![t].plan = Plan(thr[t].req),
                          ![t].result = IF Plan(thr[t].req).kind = "error"
                                        THEN [status |-> "error", message |-> <<"No content provided">>]
                                        ELSE [status |-> "no response"]]
    /\ UNCHANGED <<chat_sessions, served, openaiVars, gLast, fnCall>>

\* lines 160-167, 213-221, 251-257: the user message is built;
\* len(chat_sessions[session_id]) is read for its id
BuildUserMessage(t) ==
    /\ thr[t].pc = "dispatch"
    /\ Accepted(Plan(thr[t].req))
    /\ thr' = [thr EXCEPT ![t].pc = "append_user",
                          ![t].plan = Plan(thr[t].req),
                          ![t].user_message =
                              [id |-> Len(chat_sessions[SessionOf(t)]) + 1] @@ Plan(thr[t].req).user]
    /\ UNCHANGED <<chat_sessions, served, openaiVars, gLast, fnCall>>

\* lines 168, 222, 258: chat_sessions[session_id].append(user_message)
AppendUserMessage(t) ==
    /\ thr[t].pc = "append_user"
    /\ chat_sessions' = [chat_sessions EXCEPT ![SessionOf(t)] = Append(@, thr[t].user_message)]
    /\ thr' = [thr EXCEPT ![t].pc = "generate"]
    /\ UNCHANGED <<served, openaiVars, gLast, fnCall>>

\* lines 171-176, 225-230, 261-265: asyncio.run(generate_ai_response(...))
GenerateAiResponse(t, o) ==
    /\ thr[t].pc = "generate"
    /\ LET plan == thr[t].plan
           sid == SessionOf(t)
           conversation_history ==
               IF sid # "" /\ sid \in DOMAIN chat_sessions
               THEN ContextHistory(chat_sessions[sid]) ELSE <<>>
           call == AdapterCall(api_available, plan.message_content, plan.message_type,
                               plan.has_file, conversation_history, o)
       IN  IF openai_client = "None"
           THEN /\ thr' = [thr EXCEPT ![t].pc = "build_ai",
                                      ![t].ai_response_text =
                                          simulate_ai_response_fallback(plan.message_content,
                                                                        plan.message_type)]
                /\ UNCHANGED <<api_available, lastCall>>
           ELSE /\ thr' = [thr EXCEPT ![t].pc = "build_ai",
                                      ![t].ai_response_text = ReplyText(call.resp)]
                /\ api_available' = call.available
                /\ lastCall' = call
    /\ UNCHANGED <<chat_sessions, served, openai_client, probe, gLast, fnCall>>

\* lines 178-184, 232-238, 267-273: the assistant message is built;
\* len(chat_sessions[session_id]) is read for its id
BuildAiMessage(t) ==
    /\ thr[t].pc = "build_ai"
    /\ thr' = [thr EXCEPT ![t].pc = "append_ai",
                          ![t].id = Len(chat_sessions[SessionOf(t)]) + 1]
    /\ UNCHANGED <<chat_sessions, served, openaiVars, gLast, fnCall>>

AiMessage(t) ==
    [id |-> thr[t].id, type |-> "ai", content |-> thr[t].ai_response_text,
     message_type |-> "text"]
\* a view that returns the turn without having appended the assistant message
AppendAiMessageSkipped(t) ==
    /\ thr[t].pc = "append_ai"
    /\ thr' = [thr EXCEPT ![t].pc = "idle",
                          ![t].result = [status |-> "success",
                                         user_message |-> thr[t].user_message,
                                         ai_message |-> AiMessage(t),
                                         session_id |-> SessionOf(t)]]
    /\ UNCHANGED <<chat_sessions, served, openaiVars, gLast, fnCall>>

\* lines 185-192, 239-246, 274-281: the assistant message is appended and
\* the turn is returned to the caller
AppendAiMessage(t) ==
    /\ thr[t].pc = "append_ai"
    /\ chat_sessions' = [chat_sessions EXCEPT ![SessionOf(t)] = Append(@, AiMessage(t))]
    /\ thr' = [thr EXCEPT ![t].pc = "idle",
                          ![t].result = [status |-> "success",
                                         user_message |-> thr[t].user_message,
                                         ai_message |-> AiMessage(t),
                                         session_id |-> SessionOf(t)]]
    /\ UNCHANGED <<served, openaiVars, gLast, fnCall>>

(***************************************************************************)
(* Adapter operations called directly.  lastCall and gLast hold the call   *)
(* until its result has been handed to the caller.                         *)
(***************************************************************************)
Return ==
    /\ lastCall.op # "none"
    /\ lastCall' = NoCall
    /\ UNCHANGED <<openai_client, probe, api_available, appVars, gLast, fnCall>>

GeminiReturn ==
    /\ gLast.op # "none"
    /\ gLast' = [op |-> "none"]
    /\ UNCHANGED <<openaiVars, appVars, fnCall>>

TextCall(message, conversation_history, model, outs) ==
    /\ openai_client = "client"
    /\ lastCall.op = "none"
    /\ LET call == [op |-> "text", available_before |-> api_available, model |-> model,
                    outs |-> outs]
                   @@ ProcessTextMessage(api_available, message, conversation_history, model, outs)
       IN  lastCall' = call /\ api_available' = call.available
    /\ UNCHANGED <<openai_client, probe, appVars, gLast, fnCall>>

ImageCall(image, text_message, model, outs) ==
    /\ openai_client = "client"
    /\ lastCall.op = "none"
    /\ LET call == [op |-> "image", available_before |-> api_available, model |-> model,
                    image |-> image, outs |-> outs]
                   @@ ProcessImageMessage(api_available, image, text_message, model, outs)
       IN  lastCall' = call /\ api_available' = call.available
    /\ UNCHANGED <<openai_client, probe, appVars, gLast, fnCall>>

AudioCall(audio, transcribed, outs) ==
    /\ openai_client = "client"
    /\ lastCall.op = "none"
    /\ LET call == [op |-> "audio", available_before |-> api_available, model |-> NoModel,
                    audio |-> audio, transcribed |-> transcribed, outs |-> outs]
                   @@ ProcessAudioMessage(api_available, audio, transcribed, outs)
       IN  lastCall' = call /\ api_available' = call.available
    /\ UNCHANGED <<openai_client, probe, appVars, gLast, fnCall>>

PdfCall(pdf, text_message, outs) ==
    /\ openai_client = "client"
    /\ lastCall.op = "none"
    /\ LET call == [op |-> "pdf", available_before |-> api_available, model |-> NoModel,
                    pdf |-> pdf, pdf_text |-> ExtractPdfText(pdf),
                    text_message |-> text_message, outs |-> outs]
                   @@ ProcessPdfDocument(api_available, pdf, text_message, outs)
       IN  lastCall' = call /\ api_available' = call.available
    /\ UNCHANGED <<openai_client, probe, appVars, gLast, fnCall>>

GeminiAudioCall(audio, text_message, conversation_history, uploaded, poll, sent, deleted) ==
    /\ gLast.op = "none"
    /\ gLast' = [op |-> "audio", audio |-> audio, uploaded |-> uploaded, poll |-> poll,
                 sent |-> sent, deleted |-> deleted]
                @@ GeminiProcessAudioMessage(audio, text_message, conversation_history,
                                             uploaded, poll, sent, deleted)
    /\ UNCHANGED <<openaiVars, appVars, fnCall>>

GeminiTextCall(message, conversation_history, sent) ==
    /\ gLast.op = "none"
    /\ gLast' = [op |-> "text", given |-> conversation_history]
                @@ GeminiProcessTextMessage(message, conversation_history, sent)
    /\ UNCHANGED <<openaiVars, appVars, fnCall>>

GeminiImageCall(image, text_message, conversation_history, sent) ==
    /\ gLast.op = "none"
    /\ gLast' = [op |-> "image", given |-> conversation_history]
                @@ GeminiProcessImageMessage(image, text_message, conversation_history, sent)
    /\ UNCHANGED <<openaiVars, appVars, fnCall>>

GeminiPdfCall(pdf, text_message, conversation_history, sent) ==
    /\ gLast.op = "none"
    /\ gLast' = [op |-> "pdf", pdf |-> pdf, pdf_text |-> GeminiExtractPdfText(pdf),
                 text_message |-> text_message]
                @@ GeminiProcessPdfDocument(pdf, text_message, conversation_history, sent)
    /\ UNCHANGED <<openaiVars, appVars, fnCall>>

(***************************************************************************)
(* The outside world: requests, files and provider answers                 *)
(***************************************************************************)
NoField == [present |-> FALSE, filename |-> <<>>]
FileField(filename) == [present |-> TRUE, filename |-> filename]

Request(sid, message, voice_data, file) ==
    [session_id |-> sid, message |-> message, voice_data |-> voice_data, file |-> file]

REPLY == <<"Please restart your router.">>

\* the extracted text of a PDF page of n characters, each its own token
PdfText(n) == [i \in 1..n |-> ToString(i)]

Pdf(pages) == [readable |-> TRUE, pages |-> pages]

NoOutcome == Raises(<<"not requested">>)

\* The answers to the up to three chat completion requests of one call.  No
\* request follows a completion or a quota error, so the answers after one
\* are never asked for and are fixed.
Final(answer) == answer.kind = "ok" \/ IsQuotaError(answer.err)

Triples(S) ==
    {s \in {<<a, b, c>> : a \in S, b \in S \cup {NoOutcome}, c \in S \cup {NoOutcome}} :
        /\ s[2] = NoOutcome <=> Final(s[1])
        /\ s[3] = NoOutcome <=> (s[2] = NoOutcome \/ Final(s[2]))}

\* what the outside world can answer during one turn of the given modality;
\* the answers the modality never asks for are fixed
Oracles(message_type, has_file, answers) ==
    LET outs == Triples(answers)
        unused == Pdf(<<>>)
    IN  IF message_type = "audio" /\ has_file
        THEN [outs : outs,
              transcribed : {Completion(<<"my", "wifi", "is", "slow">>), Raises(ErrServer)},
              pdf : {unused}]
        ELSE IF message_type = "pdf" /\ has_file
        THEN [outs : outs, transcribed : {NoOutcome},
              pdf : {Pdf(<<PdfText(3)>>), Pdf(<<None>>)}]
        ELSE [outs : outs, transcribed : {NoOutcome}, pdf : {unused}]

ProbeOutcomes == {Completion(<<"t">>), Raises(ErrQuota), Raises(ErrServer)}

Init ==
    /\ \/ /\ openai_client = "None"
          /\ probe = NoOutcome
          /\ api_available = FALSE
       \/ /\ openai_client = "client"
          /\ probe \in ProbeOutcomes
          /\ api_available = TestApiConnection(probe)
    /\ lastCall = NoCall
    /\ chat_sessions = <<>>
    /\ thr = [t \in {"t1", "t2"} |-> Idle]
    /\ served = 0
    /\ gLast = [op |-> "none"]
    /\ fnCall = [op |-> "none"]

\* the steps of a request thread past its arrival
Turn(t, answers) ==
    \/ CreateSession(t)
    \/ Reject(t)
    \/ BuildUserMessage(t)
    \/ AppendUserMessage(t)
    \/ /\ thr[t].pc = "generate"
       /\ \E o \in Oracles(thr[t].plan.message_type, thr[t].plan.has_file, answers) :
              GenerateAiResponse(t, o)
    \/ BuildAiMessage(t)
    \/ AppendAiMessage(t)

(***************************************************************************)
(* Spec: requests of every shape, handled one at a time                    *)
(***************************************************************************)
Filenames == {<<"photo", "png">>, <<"note", "webm">>, <<"bill", "pdf">>, <<"notes", "txt">>,
              <<"virus", "exe">>, <<"README">>, <<>>}

Requests(sids) ==
    {Request(sid, m, NoField, NoField) : sid \in sids, m \in {<<>>, <<" ">>, <<" ", "hello">>}}
    \cup {Request(sid, <<>>, v, NoField) : sid \in sids, v \in {FileField(<<>>), FileField(<<"blob">>)}}
    \cup {Request(sid, m, NoField, FileField(f)) :
            sid \in sids, m \in {<<>>, <<"help">>}, f \in Filenames}

Answers == {Completion(REPLY), Completion(<<>>), Raises(ErrServer), Raises(Err429)}

Next ==
    \/ \E r \in Requests({"s1"}) : Receive("t1", r, MaxRequests)
    \/ Turn("t1", Answers)

Spec == Init /\ [][Next]_vars

(***************************************************************************)
(* SpecWindow: one session that grows past the context window              *)
(***************************************************************************)
WindowRequests ==
    {Request("s1", <<"hello">>, NoField, NoField),
     Request("s1", <<"help">>, NoField, FileField(<<"notes", "txt">>)),
     Request("s1", <<>>, NoField, FileField(<<"photo", "png">>)),
     Request("s1", <<>>, NoField, FileField(<<"virus", "exe">>))}

WindowAnswers == {Completion(REPLY), Raises(ErrServer)}

NextWindow ==
    \/ \E r \in WindowRequests : Receive("t1", r, MaxWindowRequests)
    \/ Turn("t1", WindowAnswers)

SpecWindow == Init /\ [][NextWindow]_vars

(***************************************************************************)
(* SpecConcurrent: two request threads, as under Flask's threaded server   *)
(***************************************************************************)
ConcurrentRequests ==
    {Request(sid, <<"hello">>, NoField, NoField) : sid \in {"s1", "s2"}}
    \cup {Request("s1", <<>>, NoField, FileField(<<"virus", "exe">>))}

NextConcurrent ==
    \E t \in {"t1", "t2"} :
        \/ \E r \in ConcurrentRequests : Receive(t, r, MaxConcurrentRequests)
        \/ Turn(t, {Completion(REPLY)})

SpecConcurrent == Init /\ [][NextConcurrent]_vars

(***************************************************************************)
(* SpecAdapter: the operations of the OpenAI-compatible adapter            *)
(***************************************************************************)
\* a conversation_history of n entries in provider format
History(n) ==
    [i \in 1..n |-> [role |-> IF i % 2 = 1 THEN "user" ELSE "assistant",
                     content |-> <<"turn", ToString(i)>>]]

AdapterAnswers ==
    {Completion(REPLY), Completion(<<>>), Completion(None),
     Raises(ErrServer), Raises(ErrRateLimit), Raises(Err429), Raises(ErrQuota)}

Pdfs ==
    {Pdf(<<PdfText(n)>>) :
        n \in {0, 1, OPENAI_PDF_LIMIT - 1, OPENAI_PDF_LIMIT, OPENAI_PDF_LIMIT + 1}}
    \cup {Pdf(<<PdfText(2), <<>>, <<"end">>>>), Pdf(<<PdfText(2), None>>),
          [readable |-> FALSE, pages |-> <<>>]}

NextAdapter ==
    \/ /\ lastCall.op = "none"
       /\ \E outs \in Triples(AdapterAnswers), message \in {<<"hello">>, <<"hoe", "gaan", "dit">>},
             n \in 0..MaxHistory,
             model \in {NoModel, models.primary, models.fast, models.vision} :
              TextCall(message, History(n), model, outs)
    \/ /\ lastCall.op = "none"
       /\ \E outs \in Triples(AdapterAnswers), readable \in BOOLEAN,
             text_message \in {<<>>, <<"what", "is", "this">>} :
              ImageCall([readable |-> readable, name |-> "photo.png"], text_message, NoModel, outs)
    \/ /\ lastCall.op = "none"
       /\ \E outs \in Triples(AdapterAnswers), readable \in BOOLEAN,
             transcribed \in {Completion(<<"my", "wifi", "is", "slow">>), Completion(<<>>),
                              Raises(ErrServer), Raises(Err429)} :
              AudioCall([readable |-> readable], transcribed, outs)
    \/ /\ lastCall.op = "none"
       /\ \E outs \in Triples(AdapterAnswers), pdf \in Pdfs,
             text_message \in {<<>>, <<"explain", "this", "bill">>} :
              PdfCall(pdf, text_message, outs)
    \/ Return

SpecAdapter == Init /\ [][NextAdapter]_vars

(***************************************************************************)
(* SpecGemini: the operations of the Gemini adapter                        *)
(***************************************************************************)
\* a session of n stored messages, as app.py stores them
SampleSession(n) ==
    [i \in 1..n |->
        IF i % 2 = 0
        THEN [id |-> i, type |-> "ai", content |-> <<"reply", ToString(i)>>,
              message_type |-> "text"]
        ELSE IF i % 4 = 1
        THEN [id |-> i, type |-> "user", content |-> <<"question", ToString(i)>>,
              message_type |-> "text"]
        ELSE [id |-> i, type |-> "user",
              content |-> <<"see", ToString(i), "\n", CLIP, "bill.pdf">>,
              message_type |-> "pdf", file_path |-> <<"uploads/", "uuid", "_", "bill.pdf">>,
              text_content |-> <<"see", ToString(i)>>]]

AudioFiles ==
    [exists : BOOLEAN, size : {0, 1, MAX_AUDIO_SIZE, MAX_AUDIO_SIZE + 1},
     ext : {".wav", ".WAV", ".webm", ".exe", ""}]

Polls == [at : 1..MaxPollAt, then : {"ACTIVE", "FAILED", "PROCESSING", "STATE_UNSPECIFIED", "raise"}]

GeminiPdfs ==
    {[exists |-> TRUE, parses |-> TRUE, pages |-> <<PdfText(n)>>] :
        n \in {0, 1, GEMINI_PDF_LIMIT - 1, GEMINI_PDF_LIMIT, GEMINI_PDF_LIMIT + 1}}
    \cup {[exists |-> TRUE, parses |-> TRUE, pages |-> <<PdfText(2), None, <<"end">>>>],
          [exists |-> TRUE, parses |-> FALSE, pages |-> <<>>],
          [exists |-> FALSE, parses |-> FALSE, pages |-> <<>>]}

GeminiAnswers == {Completion(REPLY), Completion(<<>>), Raises(ErrServer)}

\* the status checks are answered only for a valid file whose upload is
\* PROCESSING; otherwise no check is made and the answers are fixed
PollsFor(audio, uploaded) ==
    IF ValidateAudioFile(audio).valid /\ uploaded = Completion("PROCESSING")
    THEN Polls ELSE {[at |-> 1, then |-> "ACTIVE"]}

NextGemini ==
    \/ /\ gLast.op = "none"
       /\ \E sent \in GeminiAnswers, n \in {0, 3}, audio \in AudioFiles,
             uploaded \in {Completion("PROCESSING"), Completion("ACTIVE"),
                           Completion("FAILED"), Raises(ErrServer)} :
            \E poll \in PollsFor(audio, uploaded), text_message \in {<<>>, <<"listen">>},
               deleted \in {Completion(<<>>), Raises(ErrServer)} :
                GeminiAudioCall(audio, text_message, SampleSession(n), uploaded, poll,
                                sent, deleted)
    \/ /\ gLast.op = "none"
       /\ \E sent \in GeminiAnswers, n \in 0..MaxHistory :
              GeminiTextCall(<<"hello">>, SampleSession(n), sent)
    \/ /\ gLast.op = "none"
       /\ \E sent \in GeminiAnswers, n \in {0, 3}, readable \in BOOLEAN,
             text_message \in {<<>>, <<"what", "is", "this">>} :
              GeminiImageCall([readable |-> readable], text_message, SampleSession(n), sent)
    \/ /\ gLast.op = "none"
       /\ \E sent \in GeminiAnswers, n \in {0, 3}, pdf \in GeminiPdfs,
             text_message \in {<<>>, <<"explain", "this", "bill">>} :
              GeminiPdfCall(pdf, text_message, SampleSession(n), sent)
    \/ GeminiReturn

SpecGemini == Init /\ [][NextGemini]_vars

(***************************************************************************)
(* SpecPdf: the PDF operation of both adapters                             *)
(***************************************************************************)
LongPdfs ==
    {Pdf(<<PdfText(n)>>) :
        n \in {1, OPENAI_PDF_LIMIT, OPENAI_PDF_LIMIT + 1, 2 * OPENAI_PDF_LIMIT + 1}}
    \cup {Pdf(<<PdfText(2), <<>>, <<"end">>>>), Pdf(<<PdfText(2), None, <<"end">>>>),
          [readable |-> FALSE, pages |-> <<>>]}

LongGeminiPdfs ==
    {[exists |-> TRUE, parses |-> TRUE, pages |-> <<PdfText(n)>>] :
        n \in {1, GEMINI_PDF_LIMIT, GEMINI_PDF_LIMIT + 1}}
    \cup {[exists |-> TRUE, parses |-> TRUE, pages |-> <<PdfText(2), <<>>, <<"end">>>>],
          [exists |-> TRUE, parses |-> TRUE, pages |-> <<PdfText(2), None, <<"end">>>>],
          [exists |-> TRUE, parses |-> FALSE, pages |-> <<>>],
          [exists |-> FALSE, parses |-> FALSE, pages |-> <<>>]}

PdfAnswers == {Completion(REPLY), Raises(ErrServer), Raises(ErrQuota)}

NextPdf ==
    \/ /\ lastCall.op = "none"
       /\ \E outs \in Triples(PdfAnswers), pdf \in LongPdfs,
             text_message \in {<<>>, <<"explain", "this", "bill">>} :
              PdfCall(pdf, text_message, outs)
    \/ /\ gLast.op = "none"
       /\ \E sent \in {Completion(REPLY), Raises(ErrServer)}, pdf \in LongGeminiPdfs,
             text_message \in {<<>>, <<"explain", "this", "bill">>} :
              GeminiPdfCall(pdf, text_message, SampleSession(3), sent)
    \/ Return
    \/ GeminiReturn

SpecPdf == Init /\ [][NextPdf]_vars

(***************************************************************************)
(* SpecFunctions: get_file_type and detect_language called on their own    *)
(***************************************************************************)
FnReturn ==
    /\ fnCall.op # "none"
    /\ fnCall' = [op |-> "none"]
    /\ UNCHANGED <<openaiVars, appVars, gLast>>

FileTypeCall(filename) ==
    /\ fnCall.op = "none"
    /\ fnCall' = [op |-> "get_file_type", filename |-> filename,
                  result |-> get_file_type(filename), allowed |-> allowed_file(filename)]
    /\ UNCHANGED <<openaiVars, appVars, gLast>>

\* extensions as users write them: the allowed ones in lower and in upper
\* case, two in mixed case, some that are not allowed, and the empty one
\* (a name ending in a dot)
Extensions ==
    ALLOWED_EXTENSIONS
    \cup {"PNG", "Png", "PDF", "WEBM", "JPG", "Jpg", "JPEG", "GIF", "MP4", "AVI", "MOV", "WAV",
          "MP3", "OGG", "TXT"}
    \cup {"exe", "EXE", "docx", "DOCX", "gz", "jpgx", ""}

\* names without a dot, with one extension, with two, and with no stem
FileNames ==
    {<<"README">>, <<"png">>, <<"pdf">>}
    \cup {<<"report", e>> : e \in Extensions}
    \cup {<<"", e>> : e \in Extensions}
    \cup {<<"report", d, e>> : d \in {"pdf", "png", "tar"}, e \in Extensions}

DetectLanguageCall(text) ==
    /\ fnCall.op = "none"
    /\ fnCall' = [op |-> "detect_language", text |-> text, result |-> detect_language(text)]
    /\ UNCHANGED <<openaiVars, appVars, gLast>>

\* ""; "hello"; "hoe gaan dit"; "sawubona unjani"; "how are you"
\* "what is the problem"; "dankie thank you"; "dankie please"; "The Week"; "thanks"
\* "ngiyabonga"; "HOE GAAN DIT"; "my wifi is slow"; "waar is my router asseblief"
Texts ==
    {<<>>,
     <<"h", "e", "l", "l", "o">>,
     <<"h", "o", "e", " ", "g", "a", "a", "n", " ", "d", "i", "t">>,
     <<"s", "a", "w", "u", "b", "o", "n", "a", " ", "u", "n", "j", "a", "n", "i">>,
     <<"h", "o", "w", " ", "a", "r", "e", " ", "y", "o", "u">>,
     <<"w", "h", "a", "t", " ", "i", "s", " ", "t", "h", "e", " ", "p", "r", "o", "b", "l", "e", "m">>,
     <<"d", "a", "n", "k", "i", "e", " ", "t", "h", "a", "n", "k", " ", "y", "o", "u">>,
     <<"d", "a", "n", "k", "i", "e", " ", "p", "l", "e", "a", "s", "e">>,
     <<"T", "h", "e", " ", "W", "e", "e", "k">>,
     <<"t", "h", "a", "n", "k", "s">>,
     <<"n", "g", "i", "y", "a", "b", "o", "n", "g", "a">>,
     <<"H", "O", "E", " ", "G", "A", "A", "N", " ", "D", "I", "T">>,
     <<"m", "y", " ", "w", "i", "f", "i", " ", "i", "s", " ", "s", "l", "o", "w">>,
     <<"w", "a", "a", "r", " ", "i", "s", " ", "m", "y", " ", "r", "o", "u", "t", "e", "r", " ", "a", "s", "s", "e", "b", "l", "i", "e", "f">>}

NextFunctions ==
    \/ \E filename \in FileNames : FileTypeCall(filename)
    \/ \E text \in Texts : DetectLanguageCall(text)
    \/ FnReturn

SpecFunctions == Init /\ [][NextFunctions]_vars

(***************************************************************************)
(* SpecTurns: text, voice, audio and PDF turns, one after the other, in a   *)
(* request thread that keeps running until its view returns                *)
(***************************************************************************)
MaxTurns == 2

TurnRequests ==
    {Request("s1", <<"hello">>, NoField, NoField),
     Request("s1", <<>>, NoField, NoField),
     Request("s1", <<>>, FileField(<<"blob">>), NoField),
     Request("s1", <<>>, NoField, FileField(<<"note", "webm">>)),
     Request("s1", <<>>, NoField, FileField(<<"bill", "pdf">>))}

TurnAnswers == {Completion(REPLY), Raises(ErrServer), Raises(ErrQuota)}

NextTurns ==
    \/ \E r \in TurnRequests : Receive("t1", r, MaxTurns)
    \/ Turn("t1", TurnAnswers)

SpecTurns == Init /\ [][NextTurns]_vars /\ WF_vars(Turn("t1", TurnAnswers))

(***************************************************************************)
(* SpecSessions: turns on two sessions by two request threads, and         *)
(* get_chat_history called at any moment                                   *)
(***************************************************************************)
MaxSessionRequests == 2

\* get_chat_history(session_id), app.py lines 289-301
GetChatHistory(session_id) ==
    /\ fnCall.op = "none"
    /\ fnCall' = [op |-> "get_chat_history", session_id |-> session_id,
                  result |-> [status |-> "success",
                              messages |-> IF session_id \in DOMAIN chat_sessions
                                           THEN chat_sessions[session_id] ELSE <<>>]]
    /\ UNCHANGED <<openaiVars, appVars, gLast>>

SessionRequests ==
    {Request(sid, <<"hello">>, NoField, NoField) : sid \in {"s1", "s2"}}
    \cup {Request("s2", <<>>, NoField, FileField(<<"virus", "exe">>))}

SessionAnswers == {Completion(REPLY)}

NextSessions ==
    \/ \E t \in {"t1", "t2"} :
          \/ \E r \in SessionRequests : Receive(t, r, MaxSessionRequests)
          \/ Turn(t, SessionAnswers)
    \/ \E session_id \in {"s1", "s2", "s3"} : GetChatHistory(session_id)
    \/ FnReturn

SpecSessions == Init /\ [][NextSessions]_vars

(***************************************************************************)
(* Claims                                                                  *)
(***************************************************************************)

\* C1: in every session the ids of the stored messages are 1, 2, ..., n in
\* list order, also when requests on the same session id run concurrently.
C1_IdsAreOneToN ==
    \A sid \in DOMAIN chat_sessions :
        \A i \in 1..Len(chat_sessions[sid]) : chat_sessions[sid][i].id = i

\* C2: a process_text_message call made while api_available is false
\* returns the canned quota-exceeded response and sends no request to the
\* provider, however many calls came before it.
C2_UnavailableTextCallIsCanned ==
    (lastCall.op = "text" /\ ~lastCall.available_before)
        => /\ lastCall.resp = [success |-> FALSE, response |-> QUOTA_TEXT,
                               model_used |-> "fallback_mode", error_type |-> "quota_exceeded"]
           /\ lastCall.requests = <<>>
           /\ ~api_available

\* a text call made after an earlier call tripped the adapter (the probe had
\* succeeded)
C2_Witness ==
    /\ lastCall.op = "text"
    /\ ~lastCall.available_before
    /\ probe.kind = "ok"
    /\ lastCall.requests = <<>>

\* C3: api_available after construction is true iff the probe request
\* succeeded, and once it is false no step makes it true again.
C3_AvailabilityIsMonotone ==
    /\ openai_client = "client" => (api_available <=> probe.kind = "ok")
    /\ [][~api_available => ~api_available']_vars

\* an image call made on an adapter that an earlier call tripped leaves it
\* unavailable
C3_Witness ==
    /\ lastCall.op = "image"
    /\ ~lastCall.available_before
    /\ probe.kind = "ok"
    /\ ~api_available

\* C4: in a text call whose first request fails with a non-quota error and
\* whose second request succeeds, model_used is the model of the second
\* request, and no third request is sent.
C4_ModelUsedIsTheAnsweringModel ==
    (/\ lastCall.op = "text"
     /\ "outs" \in DOMAIN lastCall
     /\ lastCall.available_before
     /\ lastCall.outs[1].kind = "raise"
     /\ ~IsQuotaError(lastCall.outs[1].err)
     /\ lastCall.outs[2].kind = "ok")
        => /\ lastCall.resp.success
           /\ lastCall.resp.model_used = lastCall.requests[2].model
           /\ Len(lastCall.requests) = 2

\* The text turn of thread t has just called the adapter: the session it
\* read and the history entries of the request it built (between the
\* system prompt and the current message).
TextTurnCalled(t) ==
    /\ thr[t].pc = "build_ai"
    /\ openai_client = "client"
    /\ lastCall.op = "text"
    /\ lastCall.available_before

HistoryEntries == SubSeq(lastCall.messages, 2, Len(lastCall.messages) - 1)

C6_TypedTextInHistory ==
    TextTurnCalled("t1") =>
        LET session == chat_sessions[SessionOf("t1")]
            h == HistoryEntries
        IN  \A i \in 1..Len(h) :
                LET m == session[Len(session) - Len(h) + i]
                IN  (/\ m.type = "user"
                     /\ "text_content" \in DOMAIN m
                     /\ m.text_content # None
                     /\ m.content # m.text_content)
                        => h[i].content = m.text_content

\* the window of a built request holds an upload that came with typed text
C6_Witness ==
    /\ TextTurnCalled("t1")
    /\ \E i \in 1..Len(HistoryEntries) :
          LET session == chat_sessions[SessionOf("t1")]
              m == session[Len(session) - Len(HistoryEntries) + i]
          IN  /\ m.type = "user"
              /\ "text_content" \in DOMAIN m
              /\ m.text_content = <<"help">>
              /\ m.content = <<"help", "\n", CLIP, "notes.txt">>
              /\ HistoryEntries[i].content = <<"help">>

\* the part of a PDF prompt that holds the extracted text: what lies between
\* the heading that follows the user's message and the closing lines
PdfPart(prompt, text_message, closing) ==
    SubSeq(prompt, Len(text_message) + 3, Len(prompt) - closing)

\* the prompt holds exactly the first limit characters of the extracted
\* text, and the character after them is nowhere in it
HoldsFirst(prompt, text_message, closing, pdf_text, limit) ==
    /\ PdfPart(prompt, text_message, closing) = [i \in 1..limit |-> pdf_text[i]]
    /\ ~Contains(prompt, pdf_text[limit + 1])

C8_InvalidAudioIsNotUploaded ==
    (/\ gLast.op = "audio"
     /\ \/ gLast.audio.size = 0
        \/ Lower(gLast.audio.ext) \notin {".wav", ".mp3", ".ogg", ".webm"}
        \/ gLast.audio.size > 20 * 1024 * 1024)
        => /\ ~gLast.resp.success
           /\ gLast.uploads = 0

\* a zero-byte .wav file that exists was refused
C8_Witness ==
    /\ gLast.op = "audio"
    /\ gLast.audio = [exists |-> TRUE, size |-> 0, ext |-> ".wav"]
    /\ ~gLast.resp.success
    /\ gLast.uploads = 0

\* C9: a text turn handled alone on a session of n messages appends the
\* user message with id n+1, then the assistant message with id n+2, and
\* nothing else; the assistant content is a non-empty string.
C9_TextTurnAppendsUserThenAssistant ==
    LET me == thr["t1"]
        session == chat_sessions[SessionOf("t1")]
    IN  /\ (me.pc = "append_user" /\ me.plan.kind = "text")
              => me.user_message.id = Len(session) + 1
        /\ (me.pc \in {"generate", "build_ai"} /\ me.plan.kind = "text")
              => /\ Len(session) = me.user_message.id
                 /\ session[Len(session)] = me.user_message
        /\ (me.pc = "append_ai" /\ me.plan.kind = "text")
              => /\ Len(session) = me.user_message.id
                 /\ me.id = me.user_message.id + 1
        /\ (me.pc = "idle" /\ me.plan.kind = "text" /\ me.result.status = "success")
              => LET n == Len(session) - 2
                 IN  /\ n >= 0
                     /\ session[n + 1] = me.result.user_message
                     /\ session[n + 1].type = "user"
                     /\ session[n + 1].id = n + 1
                     /\ session[n + 2] = me.result.ai_message
                     /\ session[n + 2].type = "ai"
                     /\ session[n + 2].id = n + 2
                     /\ session[n + 2].content # None
                     /\ session[n + 2].content # <<>>

\* the upload of a request has an extension, and it is not an allowed one
DisallowedUpload(r) ==
    /\ ~r.voice_data.present
    /\ r.file.present
    /\ Len(r.file.filename) > 1
    /\ ~allowed_file(r.file.filename)

\* C10: no step of a request that uploads a file with a disallowed extension
\* changes chat_sessions, whether the session id was known before or not.
C10_DisallowedUploadLeavesStoreUnchanged ==
    [][(thr["t1"].pc # "idle" /\ DisallowedUpload(thr["t1"].req))
          => chat_sessions' = chat_sessions]_vars

\* the request uploads a .webm file and no text: a recording in the
\* voice_data field (saved as voice_<uuid>.webm, line 156) or a file whose
\* last extension is webm
WebmWithoutText(r) ==
    /\ Strip(r.message) = <<>>
    /\ \/ r.voice_data.present /\ r.voice_data.filename # <<>>
       \/ /\ ~r.voice_data.present
          /\ r.file.present
          /\ Len(r.file.filename) > 1
          /\ LowerExt(r.file.filename[Len(r.file.filename)]) = "webm"

\* C11: the turn of a .webm upload without text stores a user message of
\* modality audio whose display content contains the voice-message marker,
\* and an assistant message of modality text.
C11_WebmTurnIsAudioWithVoiceMarker ==
    LET me == thr["t1"]
    IN  (me.pc = "idle" /\ me.result.status = "success" /\ WebmWithoutText(me.req))
            => /\ me.result.user_message.message_type = "audio"
               /\ \E i \in 1..Len(me.result.user_message.content) :
                      <<me.result.user_message.content[i]>> = VOICE_MARKER
               /\ me.result.ai_message.message_type = "text"

\* the last two messages of the session of thread t are the user message
\* and the assistant message of the turn it has returned
TurnStored(t) ==
    LET me == thr[t]
        session == chat_sessions[SessionOf(t)]
        n == Len(session)
    IN  /\ n >= 2
        /\ session[n - 1] = me.result.user_message
        /\ session[n - 1].type = "user"
        /\ session[n] = me.result.ai_message
        /\ session[n].type = "ai"
        /\ n = me.result.user_message.id + 1

\* C12: once the user message of a turn is appended, nothing is appended
\* until the call of generate_ai_response has returned, and the turn ends
\* with the assistant message appended right after the user message, for
\* every answer of the provider, in the first turn and in the ones after.
C12_EveryTurnEndsWithOneReply ==
    LET me == thr["t1"]
        session == chat_sessions[SessionOf("t1")]
    IN  /\ [](me.pc \in {"generate", "build_ai", "append_ai"}
                 => /\ Len(session) = me.user_message.id
                    /\ session[Len(session)] = me.user_message)
        /\ []((me.pc = "idle" /\ me.result.status = "success") => TurnStored("t1"))
        /\ (me.pc = "generate")
              ~> (me.pc = "idle" /\ me.result.status = "success" /\ TurnStored("t1"))

\* the turn after one that failed with a provider error has been answered
C12_Witness ==
    LET me == thr["t1"]
        session == chat_sessions["s1"]
    IN  /\ me.pc = "idle"
        /\ me.result.status = "success"
        /\ served = 2
        /\ Len(session) = 4
        /\ session[2].type = "ai"
        /\ session[2].content[1] = "I apologize, I'm experiencing technical difficulties: "
        /\ session[3] = me.result.user_message
        /\ session[4] = me.result.ai_message
        /\ session[4].content = REPLY

\* the chat completion requests a call has sent
ChatRequestsSent(call) ==
    Cardinality({i \in 1..Len(call.requests) : call.requests[i].api = "chat.completions"})

\* The error that ended a direct call of an operation of the
\* OpenAI-compatible adapter: the file could not be opened, the
\* transcription request raised, or the last chat completion request
\* raised; None when nothing raised.
CallError(call) ==
    LET k == ChatRequestsSent(call)
    IN  IF call.op = "image" /\ ~call.image.readable
        THEN <<"[Errno 2] No such file or directory">>
        ELSE IF call.op = "audio" /\ ~call.audio.readable
        THEN <<"[Errno 2] No such file or directory">>
        ELSE IF call.op = "audio" /\ call.transcribed.kind = "raise"
        THEN call.transcribed.err
        ELSE IF k >= 1 /\ call.outs[k].kind = "raise"
        THEN call.outs[k].err
        ELSE None

\* C13: an operation of the OpenAI-compatible adapter that met an error of
\* the provider or of the file system returns success = false, the
\* stringified cause in error and the fixed apology in response.
C13_ErrorsAreNormalized ==
    (/\ lastCall.op \in {"text", "image", "audio", "pdf"}
     /\ "outs" \in DOMAIN lastCall
     /\ CallError(lastCall) # None)
        => /\ ~lastCall.resp.success
           /\ "error" \in DOMAIN lastCall.resp
           /\ lastCall.resp.error = CallError(lastCall)
           /\ lastCall.resp.response = OPENAI_APOLOGY

\* the error texts the provider raises in the model
ProviderErrors == {ErrQuota, Err429, ErrRateLimit, ErrServer}

\* C14: no assistant message stored in a session holds text of a provider
\* error.
C14_NoProviderErrorTextInReplies ==
    \A sid \in DOMAIN chat_sessions :
        \A i \in 1..Len(chat_sessions[sid]) :
            LET m == chat_sessions[sid][i]
            IN  m.type = "ai"
                   => \A e \in ProviderErrors :
                          \A j \in 1..Len(e) : ~Contains(m.content, e[j])

\* the request has a file field without a file, or nothing at all
NoFileOrNoContent(r) ==
    /\ ~r.voice_data.present
    /\ \/ r.file.present /\ r.file.filename = <<>>
       \/ ~r.file.present /\ Strip(r.message) = <<>>

\* C15: a request with a disallowed extension, with a file field that holds
\* no file, or with no content has returned a structured error, and no
\* message was built and no call of generate_ai_response made for it.
C15_InvalidRequestsGetStructuredError ==
    LET me == thr["t1"]
    IN  (me.pc = "idle" /\ me.req # <<>>
         /\ (DisallowedUpload(me.req) \/ NoFileOrNoContent(me.req)))
            => /\ me.result.status = "error"
               /\ me.user_message = <<>>
               /\ me.id = 0

\* C16: the assistant message of a text turn made while the adapter is
\* unavailable is the text of the quota-exceeded response.
C16_QuotaTextReachesTheUser ==
    LET me == thr["t1"]
    IN  (/\ me.pc = "idle"
         /\ me.result.status = "success"
         /\ me.plan.kind = "text"
         /\ openai_client = "client"
         /\ lastCall.op = "text"
         /\ ~lastCall.available_before)
            => me.result.ai_message.content = QUOTA_TEXT

\* the modality of an extension as it is spelled in a file name
ModalityOfSpelling(e) ==
    IF e \in {"jpg", "JPG", "Jpg", "jpeg", "JPEG", "png", "PNG", "Png", "gif", "GIF"} THEN "image"
    ELSE IF e \in {"mp4", "MP4", "avi", "AVI", "mov", "MOV"} THEN "video"
    ELSE IF e \in {"wav", "WAV", "mp3", "MP3", "ogg", "OGG", "webm", "WEBM"} THEN "audio"
    ELSE IF e \in {"pdf", "PDF"} THEN "pdf"
    ELSE "document"

\* C17: get_file_type gives the modality of the last extension of the name,
\* in whatever case it is written, and document for any other extension and
\* for a name without a dot; a name accepted by allowed_file is a document
\* only when its extension is txt.
C17_FileTypeByLastExtension ==
    fnCall.op = "get_file_type" =>
        LET f == fnCall.filename
            e == IF Len(f) > 1 THEN f[Len(f)] ELSE ""
        IN  /\ fnCall.result = ModalityOfSpelling(e)
            /\ fnCall.allowed =>
                 /\ fnCall.result \in {"image", "video", "audio", "pdf", "document"}
                 /\ fnCall.result = "document" <=> e \in {"txt", "TXT"}

\* report.pdf.PNG is an image
C17_Witness ==
    /\ fnCall.op = "get_file_type"
    /\ fnCall.filename = <<"report", "pdf", "PNG">>
    /\ fnCall.allowed
    /\ fnCall.result = "image"

\* C18: detect_language returns a language whose score is the highest of
\* the three, and english for the empty text and when every score is zero.
C18_DetectedLanguageHasMaximalScore ==
    fnCall.op = "detect_language" =>
        LET text == fnCall.text
            scores == {LanguageScore(lang, text) : lang \in {"english", "afrikaans", "zulu"}}
            highest == CHOOSE m \in scores : \A n \in scores : n <= m
        IN  /\ fnCall.result \in {"english", "afrikaans", "zulu"}
            /\ LanguageScore(fnCall.result, text) = highest
            /\ (text = <<>> \/ highest = 0) => fnCall.result = "english"

\* "dankie thank you": one Afrikaans keyword, two English ones
C18_Witness ==
    /\ fnCall.op = "detect_language"
    /\ LanguageScore("afrikaans", fnCall.text) = 1
    /\ LanguageScore("english", fnCall.text) = 2
    /\ fnCall.result = "english"

\* an answer of the provider that is a quota or 429 error
QuotaAnswer(o) == o.kind = "raise" /\ IsQuotaError(o.err)

\* the transcription request of an audio call was sent and met a quota error
TranscriptionQuotaError(call) ==
    /\ call.op = "audio"
    /\ call.audio.readable
    /\ QuotaAnswer(call.transcribed)

\* C19: a call made while the adapter is available, in which the provider
\* answers a request (chat completion or transcription) with a quota or 429
\* error, leaves the adapter unavailable, and that request is the last one
\* of the call.
C19_QuotaErrorTripsTheAdapter ==
    LET k == ChatRequestsSent(lastCall)
    IN  (/\ lastCall.op \in {"text", "image", "audio", "pdf"}
         /\ "outs" \in DOMAIN lastCall
         /\ lastCall.available_before
         /\ \/ TranscriptionQuotaError(lastCall)
            \/ \E i \in 1..k : QuotaAnswer(lastCall.outs[i]))
            => /\ ~lastCall.available
               /\ ~api_available
               /\ \A i \in 1..k : QuotaAnswer(lastCall.outs[i]) => i = k
               /\ TranscriptionQuotaError(lastCall) => k = 0

\* C20: an operation of the OpenAI-compatible adapter called while the
\* adapter is unavailable sends no request to the provider, and the text it
\* returns is one of the two fixed texts of the adapter (the quota text or
\* the apology).
C20_UnavailableAdapterSendsNothing ==
    (/\ lastCall.op \in {"text", "image", "audio", "pdf"}
     /\ "outs" \in DOMAIN lastCall
     /\ ~lastCall.available_before)
        => /\ lastCall.requests = <<>>
           /\ lastCall.resp.response \in {QUOTA_TEXT, OPENAI_APOLOGY}

\* the candidate list of the chat completion requests of a direct call
CandidatesOf(call) ==
    ModelsToTry(IF call.op = "image" THEN models.vision
                ELSE IF call.op = "pdf" THEN models.primary
                ELSE IF call.op = "text" /\ call.model # NoModel THEN call.model
                ELSE models.cost_efficient)

\* the models of the chat completion requests a call has sent, in order
ModelsAttempted(call) ==
    LET n == Len(call.requests)
        k == ChatRequestsSent(call)
    IN  [i \in 1..k |-> call.requests[n - k + i].model]

\* the call reached _make_api_call while the adapter was available
ReachedMakeApiCall(call) ==
    /\ call.op \in {"text", "image", "audio", "pdf"}
    /\ "outs" \in DOMAIN call
    /\ call.available_before
    /\ call.op = "image" => call.image.readable
    /\ call.op = "audio" => call.audio.readable /\ call.transcribed.kind = "ok"

C22_ImageGoesToTheVisionModel ==
    (ReachedMakeApiCall(lastCall) /\ lastCall.op = "image")
        => /\ lastCall.requests # <<>>
           /\ lastCall.requests[1].model =
                  (IF lastCall.model = NoModel THEN models.vision ELSE lastCall.model)
           /\ lastCall.resp.success =>
                  \E i \in 1..Len(lastCall.requests) :
                      lastCall.requests[i].model = lastCall.resp.model_used

\* The state of the uploaded file when the polling loop of a Gemini audio
\* call is left: the one reported by the last status check that answered,
\* or the one the upload returned when no check answered.
FinalState(call) ==
    IF call.checks = 0 THEN call.uploaded.content
    ELSE IF StatusAt(call.poll, call.checks) = "raise" THEN "PROCESSING"
    ELSE StatusAt(call.poll, call.checks)

\* C23: a Gemini audio call that uploaded the file makes at most 20 status
\* checks; it fails without sending the multimodal request when the file is
\* left PROCESSING or FAILED, and it sends the request only for a file left
\* ACTIVE.
C23_PollingIsBoundedAndGatesTheRequest ==
    (gLast.op = "audio" /\ gLast.uploads = 1)
        => /\ gLast.checks <= 20
           /\ gLast.waited <= 60
           /\ FinalState(gLast) \in {"PROCESSING", "FAILED"}
                  => ~gLast.resp.success /\ gLast.sends = 0
           /\ gLast.sends = 1 => FinalState(gLast) = "ACTIVE"

\* the file stayed PROCESSING through every status check
C23_Witness ==
    /\ gLast.op = "audio"
    /\ gLast.uploads = 1
    /\ gLast.poll.at > 20
    /\ gLast.checks = 20
    /\ FinalState(gLast) = "PROCESSING"
    /\ ~gLast.resp.success
    /\ gLast.sends = 0

\* C24: a Gemini audio call whose multimodal request was answered and whose
\* deletion of the uploaded file raised returns success = true with the
\* reply of the model.
C24_DeletionFailureIsNotFatal ==
    (/\ gLast.op = "audio"
     /\ gLast.sends = 1
     /\ gLast.sent.kind = "ok"
     /\ gLast.deleted.kind = "raise")
        => /\ gLast.resp.success
           /\ gLast.resp.response = gLast.sent.content
           /\ gLast.deletes = 1

\* the reply was received and the deletion raised
C24_Witness ==
    /\ gLast.op = "audio"
    /\ gLast.sends = 1
    /\ gLast.sent = Completion(REPLY)
    /\ gLast.deleted = Raises(ErrServer)
    /\ gLast.deletes = 1
    /\ gLast.resp.success
    /\ gLast.resp.response = REPLY

\* the typed text of a stored message, when it has one
HasTypedText(m) == "text_content" \in DOMAIN m /\ Truthy(m.text_content)

\* C25: every history entry of a provider request carries the typed text of
\* its message when the message has one and its display content otherwise;
\* the entry of a file upload sent without typed text carries the display
\* string and is neither null nor empty.
C25_HistoryContentIsTextOrDisplay ==
    TextTurnCalled("t1") =>
        LET session == chat_sessions[SessionOf("t1")]
            h == HistoryEntries
        IN  \A i \in 1..Len(h) :
                LET m == session[Len(session) - Len(h) + i]
                IN  /\ h[i].content = IF HasTypedText(m) THEN m.text_content ELSE m.content
                    /\ ("file_path" \in DOMAIN m /\ ~HasTypedText(m))
                           => h[i].content \notin {None, <<>>}

\* the pages of a PDF that yield text (neither None nor the empty string)
PagesWithText(pages) == SelectSeq(pages, LAMBDA page : Truthy(page))

\* what an empty-page-safe, non-fatal extraction hands on: the text of the
\* pages that have one, in page order, or the placeholder when the file
\* cannot be read
SafeExtraction(canRead, pages) ==
    IF canRead THEN ConcatPages(PagesWithText(pages)) ELSE PDF_PLACEHOLDER

\* C26: in both adapters the text extracted from a PDF is the text of its
\* pages in page order, a page without text contributing nothing, or the
\* placeholder when the extraction fails; in either case the PDF operation
\* calls the text operation with a prompt holding that text (cut at the
\* budget of the adapter).
C26_ExtractionIsEmptyPageSafeAndNonFatal ==
    /\ (lastCall.op = "pdf" /\ "pdf" \in DOMAIN lastCall)
          => LET text == SafeExtraction(lastCall.pdf.readable, lastCall.pdf.pages)
             IN  /\ lastCall.pdf_text = text
                 /\ PdfPart(lastCall.passed, lastCall.text_message, 2)
                        = FirstN(text, OPENAI_PDF_LIMIT)
                 /\ lastCall.available_before => lastCall.requests # <<>>
    /\ (gLast.op = "pdf")
          => LET text == SafeExtraction(gLast.pdf.exists /\ gLast.pdf.parses, gLast.pdf.pages)
             IN  /\ gLast.pdf_text = text
                 /\ gLast.sends = 1
                 /\ PdfPart(gLast.prompt, gLast.text_message, 1)
                        = FirstN(text, GEMINI_PDF_LIMIT)

\* the turn of thread t has just called an adapter operation that built a
\* chat completion request
TurnCalled(t) ==
    /\ thr[t].pc = "build_ai"
    /\ openai_client = "client"
    /\ lastCall.op \in {"text", "image", "audio", "pdf"}
    /\ lastCall.available_before
    /\ lastCall.requests # <<>>
    /\ lastCall.messages # <<>>

\* message m of the session has its entry among the messages of the request
InRequest(m) ==
    \E i \in 2..Len(lastCall.messages) :
        /\ lastCall.messages[i].role = IF m.type = "user" THEN "user" ELSE "assistant"
        /\ \/ lastCall.messages[i].content = m.content
           \/ "text_content" \in DOMAIN m /\ lastCall.messages[i].content = m.text_content

\* C27: in a turn of any modality, every message of an earlier turn that
\* lies in the window of the last six messages of the session has its entry
\* in the chat completion request the turn sends.
C27_HistoryReachesTheProviderInEveryModality ==
    TurnCalled("t1") =>
        LET session == chat_sessions[SessionOf("t1")]
            n == Len(session)
        IN  \A j \in 1..(n - 1) : j > n - 6 => InRequest(session[j])

\* C28: the request of a text turn is the system prompt, then entries of
\* messages of earlier turns only, in session order, then the current user
\* message, which is therefore in the request once.
C28_CurrentMessageOccursOnce ==
    (TurnCalled("t1") /\ lastCall.op = "text" /\ thr["t1"].plan.kind = "text") =>
        LET session == chat_sessions[SessionOf("t1")]
            n == Len(session)
            msgs == lastCall.messages
            h == HistoryEntries
            k == Len(h)
        IN  /\ msgs[1] = [role |-> "system", content |-> system_prompt]
            /\ msgs[Len(msgs)] = [role |-> "user", content |-> thr["t1"].plan.message_content]
            /\ session[n] = thr["t1"].user_message
            /\ k <= n - 1
            /\ \A i \in 1..k :
                   LET m == session[n - 1 - k + i]
                   IN  /\ h[i].role = IF m.type = "user" THEN "user" ELSE "assistant"
                       /\ \/ h[i].content = m.content
                          \/ "text_content" \in DOMAIN m /\ h[i].content = m.text_content

\* a direct pdf or audio call that went as far as the inner
\* process_text_message call
InnerTextCalled(call) ==
    /\ call.op \in {"pdf", "audio"}
    /\ "outs" \in DOMAIN call
    /\ call.op = "audio" => call.audio.readable /\ call.transcribed.kind = "ok"

\* the inner process_text_message call returned success = true: the adapter
\* was available and the last chat completion request was answered
InnerTextSucceeded(call) ==
    LET k == ChatRequestsSent(call)
    IN  call.available_before /\ k >= 1 /\ call.outs[k].kind = "ok"

\* C29: a pdf or audio call of the OpenAI-compatible adapter returns
\* success = true only if its inner text call did.
C29_OuterSuccessOnlyOnInnerSuccess ==
    InnerTextCalled(lastCall) =>
        (lastCall.resp.success => InnerTextSucceeded(lastCall))

\* no request of the call was answered with a quota or 429 error
NoQuotaFailure(call) ==
    /\ ~TranscriptionQuotaError(call)
    /\ \A i \in 1..ChatRequestsSent(call) : ~QuotaAnswer(call.outs[i])

\* C30: a call of an adapter operation in which no request is answered with
\* a quota or 429 error leaves api_available as it was; so after calls whose
\* failures are all of another kind it still has the value of construction.
C30_OtherErrorsLeaveAvailabilityAlone ==
    [][(/\ lastCall.op = "none"
        /\ lastCall'.op \in {"text", "image", "audio", "pdf"}
        /\ "outs" \in DOMAIN lastCall'
        /\ NoQuotaFailure(lastCall'))
           => /\ api_available' = api_available
              /\ lastCall'.available = lastCall'.available_before]_vars

\* an image call whose two requests failed with a server error left the
\* adapter available
C30_Witness ==
    /\ lastCall.op = "image"
    /\ "outs" \in DOMAIN lastCall
    /\ lastCall.available_before
    /\ ChatRequestsSent(lastCall) = 2
    /\ lastCall.outs[1] = Raises(ErrServer)
    /\ lastCall.outs[2] = Raises(ErrRateLimit)
    /\ ~lastCall.resp.success
    /\ api_available

\* request thread t takes a step of a turn
TurnStep(t) == thr[t].pc # "idle" /\ thr'[t] # thr[t]

\* the sessions stored before the step are still stored, each with its
\* messages at their positions
StoredMessagesKept ==
    \A s \in DOMAIN chat_sessions :
        /\ s \in DOMAIN chat_sessions'
        /\ Len(chat_sessions'[s]) >= Len(chat_sessions[s])
        /\ SubSeq(chat_sessions'[s], 1, Len(chat_sessions[s])) = chat_sessions[s]

\* C31: a step of a turn on session S keeps every stored message in place,
\* leaves every other session as it was and creates no session but S; a
\* step that is not one of a turn changes no session; get_chat_history
\* returns the stored list of a known id and the empty list for an unknown
\* one, and creates no session.
C31_TurnsOnlyAppendToTheirSession ==
    [][/\ StoredMessagesKept
       /\ \A t \in {"t1", "t2"} :
              TurnStep(t) =>
                  /\ DOMAIN chat_sessions' \subseteq DOMAIN chat_sessions \cup {SessionOf(t)}
                  /\ \A s \in DOMAIN chat_sessions :
                         s # SessionOf(t) => chat_sessions'[s] = chat_sessions[s]
       /\ (\A t \in {"t1", "t2"} : ~TurnStep(t)) => chat_sessions' = chat_sessions
       /\ (fnCall.op = "none" /\ fnCall'.op = "get_chat_history")
              => /\ chat_sessions' = chat_sessions
                 /\ fnCall'.result.messages =
                        (IF fnCall'.session_id \in DOMAIN chat_sessions
                         THEN chat_sessions[fnCall'.session_id] ELSE <<>>)]_vars

\* C32: a Gemini audio call whose upload succeeded attempts the deletion of
\* the uploaded file before it returns, whatever happened after the upload.
C32_UploadedFileIsAlwaysDeleted ==
    (gLast.op = "audio" /\ gLast.uploads = 1) => gLast.deletes = 1
====
